---- MODULE Spec2Model ----
(***************************************************************************)
(* The penguin server's HTTP entry point and session supervisor            *)
(* (server/server_handler.go): handleClientHandler dispatches a request,   *)
(* handleWebsocket runs one tunnel session from upgrade to teardown.       *)
(*                                                                         *)
(* Header values that the code inspects character by character (Upgrade,   *)
(* Sec-WebSocket-Protocol, error texts) are sequences of one-character     *)
(* strings, so that ToLower, HasPrefix and HasSuffix are computed.  Values *)
(* the code only compares for equality are plain strings.                  *)
(***************************************************************************)
EXTENDS Integers, Sequences, FiniteSets, TLC

\* ------------------------------------------------------------------ bounds

\* Sessions whose handshakes and ticket hand-offs run concurrently.
NumSessions == 2

\* Longest Remotes list a client config declares.
MaxRemotes == 2

\* Channel-open requests one client sends in a session.
MaxChannels == 1

Sessions == 1..NumSessions

\* a nil error: no text
Nil == <<>>

\* ------------------------------------------------------------- strings

UpperToLower ==
  [ch \in {"W", "E", "B", "S", "O", "C", "K", "T"} |->
     CASE ch = "W" -> "w" [] ch = "E" -> "e" [] ch = "B" -> "b"
       [] ch = "S" -> "s" [] ch = "O" -> "o" [] ch = "C" -> "c"
       [] ch = "K" -> "k" [] ch = "T" -> "t"]

\* strings.ToLower over the alphabet the model's header values use
ToLower(str) ==
  [i \in 1..Len(str) |->
     IF str[i] \in DOMAIN UpperToLower THEN UpperToLower[str[i]] ELSE str[i]]

\* strings.HasPrefix
HasPrefix(str, prefix) ==
  /\ Len(str) >= Len(prefix)
  /\ SubSeq(str, 1, Len(prefix)) = prefix

\* strings.HasSuffix
HasSuffix(str, suffix) ==
  /\ Len(str) >= Len(suffix)
  /\ SubSeq(str, Len(str) - Len(suffix) + 1, Len(str)) = suffix

Websocket == <<"w", "e", "b", "s", "o", "c", "k", "e", "t">>
PenguinPrefix == <<"p", "e", "n", "g", "u", "i", "n", "-">>
EOFSuffix == <<"E", "O", "F">>

\* chshare.ProtocolVersion, the sub-protocol token the server expects
ProtocolVersion == PenguinPrefix \o <<"v", "3">>

\* chshare.BuildVersion
BuildVersion == "1.2.3"

\* ------------------------------------------------------- request inputs

UpgradeHeaders ==
  { <<>>,
    Websocket,
    <<"W", "e", "b", "S", "o", "c", "k", "e", "t">>,
    <<"W", "E", "B", "S", "O", "C", "K", "E", "T">>,
    <<"h", "2", "c">> }

ProtocolHeaders ==
  { <<>>,
    ProtocolVersion,
    PenguinPrefix \o <<"v", "2">>,
    PenguinPrefix,
    <<"p", "e", "n", "g", "u", "i", "n">>,
    <<"c", "h", "i", "s", "e", "l", "-", "v", "3">> }

\* "" is what Header.Get returns for an absent header
PskHeaders == {"", "right", "wrong"}

Paths == {"/health", "/version", "/"}

Requests ==
  [Upgrade : UpgradeHeaders, Protocol : ProtocolHeaders,
   Psk : PskHeaders, Path : Paths]

\* The requests of the specification of concurrent sessions: one tunnel
\* upgrade per configured PSK and one plain probe.
SessionRequests ==
  { rq \in Requests :
      \/ /\ rq.Upgrade = Websocket
         /\ rq.Protocol = ProtocolVersion
         /\ rq.Psk = "right"
         /\ rq.Path = "/"
      \/ /\ rq.Upgrade = <<>>
         /\ rq.Protocol = <<>>
         /\ rq.Psk = ""
         /\ rq.Path = "/health" }

\* s.config and s.reverseProxy, s.users.Len() > 0
Policies ==
  [Psk : {"", "right"}, Obfs : BOOLEAN, Reverse : BOOLEAN,
   reverseProxy : BOOLEAN, users : BOOLEAN]

Resp404 == "Not found"

\* no request: nothing was read from the connection yet
NoRequest == [Upgrade |-> <<>>, Protocol |-> <<>>, Psk |-> "", Path |-> ""]

\* ------------------------------------------------------------ data model

\* settings.User: Name, Pass and the addresses its patterns match
Users ==
  { [Name |-> "alice", Pass |-> "pa", Addrs |-> {"hostA:80"}],
    [Name |-> "bob", Pass |-> "pb", Addrs |-> {"hostA:80", "hostB:22"}] }

\* a nil *settings.User
NoUser == [Name |-> "", Pass |-> "", Addrs |-> {}]

UserNames == {u.Name : u \in Users} \cup {"mallory"}
Passwords == {u.Pass : u \in Users}

\* user.HasAccess(addr)
HasAccess(u, addr) == addr \in u.Addrs

Addrs == {"hostA:80", "hostB:22"}

\* settings.Remote: the reverse flag and the canonical address UserAddr()
\* reports (the listener of a reverse remote, the target of a forward one)
Remotes == [Reverse : BOOLEAN, Addr : Addrs]

\* r.UserAddr()
UserAddr(remote) == remote.Addr

\* r.CanListen(): the pre-bind probe succeeds when the address is free
CanListen(remote, free) == remote.Addr \in free

\* c.Remotes.Reversed(true): the reverse-marked entries, order preserved
RECURSIVE Reversed(_)
Reversed(remotes) ==
  IF remotes = <<>> THEN <<>>
  ELSE IF Head(remotes).Reverse
       THEN <<Head(remotes)>> \o Reversed(Tail(remotes))
       ELSE Reversed(Tail(remotes))

SeqsUpTo(S, n) == UNION { [1..k -> S] : k \in 0..n }

Versions == {BuildVersion, "0.0.1", ""}

\* settings.Config
Configs == [Version : Versions, Remotes : SeqsUpTo(Remotes, MaxRemotes)]

NoConfig == [Version |-> "", Remotes |-> <<>>]

\* settings.EncodeConfig: the payload of a config request
EncodeConfig(cfg) ==
  [wellFormed |-> TRUE, Version |-> cfg.Version, Remotes |-> cfg.Remotes]

\* bytes that decode to no config
Garbage == [wellFormed |-> FALSE, Version |-> "", Remotes |-> <<>>]

Payloads == {EncodeConfig(cfg) : cfg \in Configs} \cup {Garbage}

\* settings.DecodeConfig: the config, or an error for bytes that are none
DecodeConfig(payload) ==
  IF payload.wellFormed
  THEN [err |-> Nil,
        c |-> [Version |-> payload.Version, Remotes |-> payload.Remotes]]
  ELSE [err |-> <<"decode error">>, c |-> NoConfig]

\* the out-of-band requests a client may send first
OOBRequests == [Type : {"config", "ping"}, Payload : Payloads]

\* the first requests of the specification that follows a session to its
\* end: any type, garbage, and every config of the server's own version or
\* of no version
SupervisedRequests ==
  {rq \in OOBRequests : rq.Payload.Version \in {BuildVersion, ""}}

\* no request received
NoOOB == [Type |-> "", Payload |-> Garbage]

\* no tunnel created
NoTunnel == [Inbound |-> FALSE, Outbound |-> FALSE]

\* errors a sub-task may return: BindSSH ends with the connection (a clean
\* close or a fault), BindRemotes with a listener that cannot be bound
ErrEOF == EOFSuffix
ErrUnexpectedEOF == <<"u", "n", "e", "x", "p", "e", "c", "t", "e", "d", " ">> \o EOFSuffix
ErrReset == <<"r", "e", "s", "e", "t">>
ErrInUse == <<"i", "n", " ", "u", "s", "e">>
TaskErrors == {ErrEOF, ErrUnexpectedEOF, ErrReset}
RemotesErrors == {ErrInUse}

\* ---------------------------------------------------------------- state

VARIABLES
  policy,     \* s.config, s.reverseProxy, s.users: fixed at construction
  sessCount,  \* s.sessCount
  sessions,   \* s.sessions: session identifier -> User, NoUser when absent
  pc,         \* position of each request's handler
  request,    \* the request being dispatched (headers are dead after upgrade)
  w,          \* the http.ResponseWriter of each request
  id,         \* handleWebsocket's id (0 before it is called)
  proven,     \* the User the handshake's auth callback accepted
  storeOps,   \* operations the supervisor made on s.sessions
  user,       \* handleWebsocket's user
  r,          \* handleWebsocket's r, the first out-of-band request
  c,          \* the decoded config
  replies,    \* replies sent on r
  sshConn,    \* "none", "open" or "closed" (sshConn.Close() was called)
  probed,     \* the remotes CanListen() was called on, in order
  listenable, \* the addresses CanListen() reported free when called
  tunnel,     \* the tunnel.Config of the session's tunnel
  chans,      \* channel-open requests received and not yet served
  opened,     \* channel-open requests the client has sent
  dialed,     \* addresses BindSSH dialed
  listeners,  \* remotes BindRemotes bound a listener for, in order
  task,       \* the two sub-tasks: state, returned err, order of return
  eg,         \* the errgroup: first error, derived context cancelled
  reqCtx,     \* req.Context(): "live" or "done"
  log         \* log lines of the request, oldest first

vars ==
  <<policy, sessCount, sessions, pc, request, w, id, proven, storeOps, user,
    r, c, replies, sshConn, probed, listenable, tunnel, chans, opened,
    dialed, listeners, task, eg, reqCtx, log>>

dispatchVars == <<request, w, id>>
ticketVars == <<sessions, proven, storeOps, user>>
configVars == <<r, c, replies, probed, listenable, tunnel>>
tunnelVars == <<dialed, listeners, task, eg, reqCtx>>
clientVars == <<chans, opened>>

NoTask == [state |-> "none", err |-> Nil, order |-> 0]

Init ==
  /\ policy \in Policies
  /\ sessCount = 0
  /\ sessions = [sid \in Sessions |-> NoUser]
  /\ pc = [s \in Sessions |-> "idle"]
  /\ request = [s \in Sessions |-> NoRequest]
  /\ w = [s \in Sessions |-> [status |-> 0, body |-> <<>>, proxied |-> FALSE]]
  /\ id = [s \in Sessions |-> 0]
  /\ proven = [s \in Sessions |-> NoUser]
  /\ storeOps = [s \in Sessions |-> <<>>]
  /\ user = [s \in Sessions |-> NoUser]
  /\ r = [s \in Sessions |-> NoOOB]
  /\ c = [s \in Sessions |-> NoConfig]
  /\ replies = [s \in Sessions |-> <<>>]
  /\ sshConn = [s \in Sessions |-> "none"]
  /\ probed = [s \in Sessions |-> <<>>]
  /\ listenable = [s \in Sessions |-> {}]
  /\ tunnel = [s \in Sessions |-> NoTunnel]
  /\ chans = [s \in Sessions |-> <<>>]
  /\ opened = [s \in Sessions |-> 0]
  /\ dialed = [s \in Sessions |-> {}]
  /\ listeners = [s \in Sessions |-> <<>>]
  /\ task = [s \in Sessions |-> [A |-> NoTask, B |-> NoTask]]
  /\ eg = [s \in Sessions |-> [err |-> Nil, cancelled |-> FALSE]]
  /\ reqCtx = [s \in Sessions |-> "live"]
  /\ log = [s \in Sessions |-> <<>>]

\* ------------------------------------------------------------- dispatch

\* http.ResponseWriter.Write: the first write sends status 200
Write(rw, bytes) ==
  [rw EXCEPT !.status = IF rw.status = 0 THEN 200 ELSE rw.status,
             !.body = Append(rw.body, bytes)]

\* http.ResponseWriter.WriteHeader
WriteHeader(rw, code) ==
  [rw EXCEPT !.status = IF rw.status = 0 THEN code ELSE rw.status]

\* s.reverseProxy.ServeHTTP: the delegate answers
ServeHTTP(rw) == [rw EXCEPT !.proxied = TRUE]

Line(level, format, args) == [level |-> level, format |-> format, args |-> args]

\* a dispatcher that upgrades without looking at X-Penguin-Psk
UpgradesWithoutPsk(rq) ==
  /\ ToLower(rq.Upgrade) = Websocket
  /\ HasPrefix(rq.Protocol, PenguinPrefix)
  /\ rq.Protocol = ProtocolVersion

\* lines 20-25: whether handleClientHandler calls handleWebsocket
Upgrades(rq) ==
  LET upgrade == ToLower(rq.Upgrade)
      protocol == rq.Protocol
      wsPsk == rq.Psk
  IN /\ upgrade = Websocket
     /\ HasPrefix(protocol, PenguinPrefix)
     /\ (policy.Psk = "" \/ wsPsk = policy.Psk)
     /\ protocol = ProtocolVersion

\* lines 23-35: the info lines of a tunnel candidate that is not upgraded
IgnoredLog(rq) ==
  LET upgrade == ToLower(rq.Upgrade)
      protocol == rq.Protocol
      wsPsk == rq.Psk
  IN IF upgrade = Websocket /\ HasPrefix(protocol, PenguinPrefix)
     THEN IF policy.Psk = "" \/ wsPsk = policy.Psk
          THEN <<Line("info",
                      "ignoring client connection using protocol '%s', expected '%s'",
                      <<protocol, ProtocolVersion>>)>>
          ELSE <<Line("info",
                      "ignoring client connection with incorrect or missing PSK '%s'",
                      <<wsPsk>>)>>
     ELSE <<>>

\* a fall-through that serves the health endpoints under obfuscation too
FallThroughIgnoringObfs(rq, rw) ==
  IF policy.reverseProxy
  THEN ServeHTTP(rw)
  ELSE IF rq.Path = "/health"
       THEN Write(rw, "OK\n")
       ELSE IF rq.Path = "/version"
            THEN Write(rw, BuildVersion)
            ELSE Write(WriteHeader(rw, 404), Resp404)

\* lines 37-55: the response of a request that falls through
FallThrough(rq, rw) ==
  IF policy.reverseProxy
  THEN ServeHTTP(rw)
  ELSE IF ~policy.Obfs /\ rq.Path = "/health"
       THEN Write(rw, "OK\n")
       ELSE IF ~policy.Obfs /\ rq.Path = "/version"
            THEN Write(rw, BuildVersion)
            ELSE Write(WriteHeader(rw, 404), Resp404)

\* handleClientHandler with request rq, up to the return of
\* upgrader.Upgrade in handleWebsocket (lines 18-67); upgraded is the
\* outcome of the WebSocket upgrade when it is attempted.
HandleClientHandler(s, rq, upgraded) ==
  /\ pc[s] = "idle"
  /\ request' = [request EXCEPT ![s] = rq]
  /\ IF Upgrades(rq)
     THEN /\ sessCount' = sessCount + 1
          /\ id' = [id EXCEPT ![s] = sessCount + 1]
          /\ w' = w
          /\ IF upgraded
             THEN /\ pc' = [pc EXCEPT ![s] = "handshake"]
                  /\ sshConn' = sshConn
                  /\ log' = [log EXCEPT ![s] =
                               <<Line("debug", "handshaking with %s...", <<>>)>>]
             ELSE \* the upgrader has answered the request itself
                  /\ pc' = [pc EXCEPT ![s] = "returned"]
                  /\ sshConn' = sshConn
                  /\ log' = [log EXCEPT ![s] =
                               <<Line("debug", "failed to upgrade (%s)", <<>>)>>]
     ELSE /\ upgraded
          /\ pc' = [pc EXCEPT ![s] = "responded"]
          /\ w' = [w EXCEPT ![s] = FallThrough(rq, w[s])]
          /\ log' = [log EXCEPT ![s] = IgnoredLog(rq)]
          /\ UNCHANGED <<sessCount, id, sshConn>>
  /\ UNCHANGED <<policy, ticketVars, configVars, tunnelVars, clientVars>>

\* ------------------------------------------------- handshake and ticket

\* sshConn.SessionID(): one identifier per handshake
SessionID(s) == s

\* s.sessions.Get
Get(store, sid) == [u |-> store[sid], ok |-> store[sid] # NoUser]

\* s.sessions.Set
Set(store, sid, u) == [store EXCEPT ![sid] = u]

\* s.sessions.Del
Del(store, sid) == [store EXCEPT ![sid] = NoUser]

\* The auth callback of the handshake: with no users configured it accepts
\* and stores nothing; otherwise it accepts iff a user of that name has
\* exactly that secret, and stores session identifier -> User.
AuthUser(s, name, pass) ==
  /\ pc[s] = "handshake"
  /\ request' = [request EXCEPT ![s] = NoRequest]
  /\ IF ~policy.users
     THEN /\ pc' = [pc EXCEPT ![s] = "authed"]
          /\ UNCHANGED <<sessions, proven>>
     ELSE IF \E u \in Users : u.Name = name /\ u.Pass = pass
          THEN LET u == CHOOSE x \in Users : x.Name = name /\ x.Pass = pass
               IN /\ sessions' = Set(sessions, SessionID(s), u)
                  /\ proven' = [proven EXCEPT ![s] = u]
                  /\ pc' = [pc EXCEPT ![s] = "authed"]
          ELSE UNCHANGED <<sessions, proven, pc>>
  /\ UNCHANGED <<policy, sessCount, w, id, storeOps, user, sshConn, log,
                 configVars, tunnelVars, clientVars>>

\* An auth layer with the logic bug line 81 guards against: with users
\* configured the callback accepts a user and stores no ticket.
AuthUserForgetful(s, name, pass) ==
  /\ pc[s] = "handshake"
  /\ policy.users
  /\ \E u \in Users :
       /\ u.Name = name
       /\ u.Pass = pass
       /\ proven' = [proven EXCEPT ![s] = u]
  /\ request' = [request EXCEPT ![s] = NoRequest]
  /\ pc' = [pc EXCEPT ![s] = "authed"]
  /\ UNCHANGED <<policy, sessCount, w, id, sessions, storeOps, user, sshConn,
                 log, configVars, tunnelVars, clientVars>>

\* ssh.NewServerConn returns the connection (line 70)
HandshakeDone(s) ==
  /\ pc[s] = "authed"
  /\ pc' = [pc EXCEPT ![s] = "handshook"]
  /\ sshConn' = [sshConn EXCEPT ![s] = "open"]
  /\ UNCHANGED <<policy, sessCount, dispatchVars, ticketVars, log,
                 configVars, tunnelVars, clientVars>>

\* ssh.NewServerConn returns an error (lines 71-74)
HandshakeFail(s) ==
  /\ pc[s] \in {"handshake", "authed"}
  /\ pc' = [pc EXCEPT ![s] = "returned"]
  /\ request' = [request EXCEPT ![s] = NoRequest]
  /\ log' = [log EXCEPT ![s] =
               Append(@, Line("debug", "failed to handshake (%s)", <<>>))]
  /\ UNCHANGED <<policy, sessCount, w, id, ticketVars, sshConn,
                 configVars, tunnelVars, clientVars>>

\* a supervisor that reads its ticket and leaves it in the store
ConsumedKept(store, sid) == store

\* the store after the supervisor consumed its ticket (line 84)
Consumed(store, sid) == Del(store, sid)

\* line 88
Verifying == Line("debug", "verifying configuration", <<>>)

\* a supervisor that looks for a ticket whether or not users are configured
UsersAssumed == TRUE

\* line 77: s.users.Len() > 0
UsersConfigured == policy.users

\* a supervisor that goes on without a ticket
MissingIgnored(got) == FALSE

\* lines 80-82: the store holds no ticket under the identifier
Missing(got) == ~got.ok

\* lines 76-83: the ticket is read under the session's own identifier; with
\* no users configured the supervisor goes on to the select of line 91
GetTicket(s) ==
  /\ pc[s] = "handshook"
  /\ IF UsersConfigured
     THEN LET sid == SessionID(s)
              got == Get(sessions, sid)
          IN /\ storeOps' = [storeOps EXCEPT ![s] =
                               Append(@, [op |-> "Get", key |-> sid])]
             /\ log' = log
             /\ IF Missing(got)
                THEN /\ pc' = [pc EXCEPT ![s] = "panic"]
                     /\ user' = user
                ELSE /\ pc' = [pc EXCEPT ![s] = "delTicket"]
                     /\ user' = [user EXCEPT ![s] = got.u]
     ELSE /\ pc' = [pc EXCEPT ![s] = "await"]
          /\ log' = [log EXCEPT ![s] = Append(@, Verifying)]
          /\ UNCHANGED <<storeOps, user>>
  /\ UNCHANGED <<policy, sessCount, dispatchVars, sessions, proven, sshConn,
                 configVars, tunnelVars, clientVars>>

\* line 84, then the supervisor waits at the select of line 91
DelTicket(s) ==
  /\ pc[s] = "delTicket"
  /\ LET sid == SessionID(s)
     IN /\ sessions' = Consumed(sessions, sid)
        /\ storeOps' = [storeOps EXCEPT ![s] =
                          Append(@, [op |-> "Del", key |-> sid])]
  /\ log' = [log EXCEPT ![s] = Append(@, Verifying)]
  /\ pc' = [pc EXCEPT ![s] = "await"]
  /\ UNCHANGED <<policy, sessCount, dispatchVars, proven, user, sshConn,
                 configVars, tunnelVars, clientVars>>

\* the client opens a channel to target; it waits in chans until served
ClientOpenChannel(s, target) ==
  /\ pc[s] \in {"handshook", "delTicket", "await", "wait"}
  /\ opened[s] < MaxChannels
  /\ opened' = [opened EXCEPT ![s] = @ + 1]
  /\ chans' = [chans EXCEPT ![s] = Append(@, target)]
  /\ UNCHANGED <<policy, sessCount, pc, dispatchVars, ticketVars, sshConn,
                 log, configVars, tunnelVars>>

\* -------------------------------------------------------- config exchange

Reply(ok, payload) == [ok |-> ok, payload |-> payload]

\* a supervisor that takes any first request for the config
IsConfigAnyType(rq) == TRUE

\* line 102
IsConfig(rq) == rq.Type = "config"

\* lines 112-119: the advisory version line
VersionLog(cfg) ==
  IF cfg.Version # BuildVersion
  THEN LET v == IF cfg.Version = "" THEN "<unknown>" ELSE cfg.Version
       IN <<Line("info", "client version (%s) differs from server version (%s)",
                 <<v, BuildVersion>>)>>
  ELSE <<>>

\* the checks of one remote with the listener probe made before the
\* reverse flag of the policy is looked at
CheckRemoteProbeFirst(remote, u, free) ==
  IF u # NoUser /\ ~HasAccess(u, UserAddr(remote))
  THEN [err |-> <<"access to '%s' denied", UserAddr(remote)>>,
        probed |-> <<>>, log |-> <<>>]
  ELSE IF remote.Reverse /\ ~CanListen(remote, free)
       THEN [err |-> <<"server cannot listen on %s", remote.Addr>>,
             probed |-> <<remote>>, log |-> <<>>]
       ELSE IF remote.Reverse /\ ~policy.Reverse
            THEN [err |-> <<"reverse port forwarding not enabled on server">>,
                  probed |-> <<remote>>, log |-> <<>>]
            ELSE [err |-> Nil,
                  probed |-> IF remote.Reverse THEN <<remote>> ELSE <<>>,
                  log |-> <<>>]

\* lines 122-141: the checks of one remote; free are the addresses a
\* listener can be bound on when CanListen probes
CheckRemote(remote, u, free) ==
  IF u # NoUser /\ ~HasAccess(u, UserAddr(remote))
  THEN [err |-> <<"access to '%s' denied", UserAddr(remote)>>,
        probed |-> <<>>, log |-> <<>>]
  ELSE IF remote.Reverse /\ ~policy.Reverse
       THEN [err |-> <<"reverse port forwarding not enabled on server">>,
             probed |-> <<>>,
             log |-> <<Line("debug",
                            "denied reverse port forwarding request, please enable --reverse",
                            <<>>)>>]
       ELSE IF remote.Reverse
            THEN IF ~CanListen(remote, free)
                 THEN [err |-> <<"server cannot listen on %s", remote.Addr>>,
                       probed |-> <<remote>>, log |-> <<>>]
                 ELSE [err |-> Nil, probed |-> <<remote>>, log |-> <<>>]
            ELSE [err |-> Nil, probed |-> <<>>, log |-> <<>>]

\* a loop that goes on after a remote failed and reports the last failure
RECURSIVE ValidateRemotesLast(_, _, _)
ValidateRemotesLast(remotes, u, free) ==
  IF remotes = <<>>
  THEN [err |-> Nil, probed |-> <<>>, log |-> <<>>]
  ELSE LET first == CheckRemote(Head(remotes), u, free)
           rest == ValidateRemotesLast(Tail(remotes), u, free)
       IN [err |-> IF rest.err # Nil THEN rest.err ELSE first.err,
           probed |-> first.probed \o rest.probed,
           log |-> first.log \o rest.log]

\* lines 121-142: the loop stops at the first remote that fails
RECURSIVE ValidateRemotes(_, _, _)
ValidateRemotes(remotes, u, free) ==
  IF remotes = <<>>
  THEN [err |-> Nil, probed |-> <<>>, log |-> <<>>]
  ELSE LET first == CheckRemote(Head(remotes), u, free)
       IN IF first.err # Nil
          THEN first
          ELSE LET rest == ValidateRemotes(Tail(remotes), u, free)
               IN [err |-> rest.err,
                   probed |-> first.probed \o rest.probed,
                   log |-> first.log \o rest.log]

\* a failed() that logs and sends nothing
FailedSilently(err) ==
  [replies |-> <<>>,
   log |-> <<Line("debug", "failed: %s", err)>>]

\* lines 98-101: failed(err)
Failed(err) ==
  [replies |-> <<Reply(FALSE, err)>>,
   log |-> <<Line("debug", "failed: %s", err)>>]

\* a supervisor that binds the tunnel without sending the positive reply
ValidatedSilently(sent) == sent

\* line 144: the replies once the config is validated
Validated(sent) == Append(sent, Reply(TRUE, <<>>))

\* a supervisor that rejects a config of another version
ConfigOutcomeStrict(rq, u, free) ==
  IF ~IsConfig(rq)
  THEN LET f == Failed(<<"expecting config request">>)
       IN [ok |-> FALSE, c |-> NoConfig, probed |-> <<>>,
           replies |-> f.replies, log |-> f.log]
  ELSE LET dec == DecodeConfig(rq.Payload)
       IN IF dec.err # Nil
          THEN LET f == Failed(<<"invalid config">>)
               IN [ok |-> FALSE, c |-> NoConfig, probed |-> <<>>,
                   replies |-> f.replies, log |-> f.log]
          ELSE IF dec.c.Version # BuildVersion
               THEN LET f == Failed(<<"version mismatch">>)
                    IN [ok |-> FALSE, c |-> dec.c, probed |-> <<>>,
                        replies |-> f.replies,
                        log |-> VersionLog(dec.c) \o f.log]
               ELSE LET v == ValidateRemotes(dec.c.Remotes, u, free)
                    IN IF v.err # Nil
                       THEN LET f == Failed(v.err)
                            IN [ok |-> FALSE, c |-> dec.c, probed |-> v.probed,
                                replies |-> f.replies, log |-> v.log \o f.log]
                       ELSE [ok |-> TRUE, c |-> dec.c, probed |-> v.probed,
                             replies |-> Validated(<<>>), log |-> v.log]

\* lines 102-144 for the first request rq of a session with user u: the
\* replies, the decoded config, the probes made, the log lines, and
\* whether the supervisor goes on to bind the tunnel
ConfigOutcome(rq, u, free) ==
  IF ~IsConfig(rq)
  THEN LET f == Failed(<<"expecting config request">>)
       IN [ok |-> FALSE, c |-> NoConfig, probed |-> <<>>,
           replies |-> f.replies, log |-> f.log]
  ELSE LET dec == DecodeConfig(rq.Payload)
       IN IF dec.err # Nil
          THEN LET f == Failed(<<"invalid config">>)
               IN [ok |-> FALSE, c |-> NoConfig, probed |-> <<>>,
                   replies |-> f.replies, log |-> f.log]
          ELSE LET v == ValidateRemotes(dec.c.Remotes, u, free)
               IN IF v.err # Nil
                  THEN LET f == Failed(v.err)
                       IN [ok |-> FALSE, c |-> dec.c, probed |-> v.probed,
                           replies |-> f.replies,
                           log |-> VersionLog(dec.c) \o v.log \o f.log]
                  ELSE [ok |-> TRUE, c |-> dec.c, probed |-> v.probed,
                        replies |-> Validated(<<>>),
                        log |-> VersionLog(dec.c) \o v.log]

\* lines 146-152: tunnel.New(tunnel.Config{...})
NewTunnel == [Inbound |-> policy.Reverse, Outbound |-> TRUE]

Running == [state |-> "running", err |-> Nil, order |-> 0]

\* The select of line 91 receives rq; lines 98-167 follow without
\* blocking: validation, the reply, the tunnel and the two eg.Go calls.
ReceiveRequest(s, rq, free) ==
  /\ pc[s] = "await"
  /\ LET out == ConfigOutcome(rq, user[s], free)
     IN /\ r' = [r EXCEPT ![s] = rq]
        /\ c' = [c EXCEPT ![s] = out.c]
        /\ probed' = [probed EXCEPT ![s] = out.probed]
        /\ listenable' = [listenable EXCEPT ![s] =
                            {UserAddr(out.probed[i]) : i \in 1..Len(out.probed)}
                              \cap free]
        /\ replies' = [replies EXCEPT ![s] = out.replies]
        /\ log' = [log EXCEPT ![s] = @ \o out.log]
        /\ IF out.ok
           THEN /\ tunnel' = [tunnel EXCEPT ![s] = NewTunnel]
                /\ task' = [task EXCEPT ![s] = [A |-> Running, B |-> Running]]
                /\ pc' = [pc EXCEPT ![s] = "wait"]
           ELSE /\ pc' = [pc EXCEPT ![s] = "returned"]
                /\ UNCHANGED <<tunnel, task>>
  /\ UNCHANGED <<policy, sessCount, dispatchVars, ticketVars, sshConn,
                 dialed, listeners, eg, reqCtx, clientVars>>

\* a timeout path that returns with the connection left open
CloseForgotten(conn) == conn

\* line 95
Close(conn) == "closed"

\* lines 93-96: the timer fires first
ConfigTimeout(s) ==
  /\ pc[s] = "await"
  /\ log' = [log EXCEPT ![s] =
               Append(@, Line("debug", "timeout waiting for configuration", <<>>))]
  /\ sshConn' = [sshConn EXCEPT ![s] = Close(@)]
  /\ pc' = [pc EXCEPT ![s] = "returned"]
  /\ UNCHANGED <<policy, sessCount, dispatchVars, ticketVars,
                 configVars, tunnelVars, clientVars>>

\* The peer closes the connection before any request: reqs is closed, the
\* receive of line 92 yields nil and line 102 dereferences it.
ReqsClosed(s) ==
  /\ pc[s] = "await"
  /\ pc' = [pc EXCEPT ![s] = "panic"]
  /\ UNCHANGED <<policy, sessCount, dispatchVars, ticketVars, sshConn, log,
                 configVars, tunnelVars, clientVars>>

\* ---------------------------------------------------------- tunnel engine

\* a group that keeps the first error and leaves ctx alone
LatchWithoutCancel(g, err) ==
  IF err # Nil /\ g.err = Nil
  THEN [g EXCEPT !.err = err]
  ELSE g

\* errgroup.Group.Go: the first non-nil error is kept and cancels ctx
Latch(g, err) ==
  IF err # Nil /\ g.err = Nil
  THEN [err |-> err, cancelled |-> TRUE]
  ELSE g

\* a sub-task that returned err after the sub-task other
Returned(err, other) ==
  [state |-> "returned", err |-> err,
   order |-> IF other.state = "returned" THEN other.order + 1 ELSE 1]

\* BindSSH serves the oldest waiting channel-open request: with Outbound
\* set it dials the address the request carries.
BindSSHServe(s) ==
  /\ pc[s] = "wait"
  /\ task[s].A.state = "running"
  /\ chans[s] # <<>>
  /\ chans' = [chans EXCEPT ![s] = Tail(@)]
  /\ dialed' = [dialed EXCEPT ![s] =
                  IF tunnel[s].Outbound THEN @ \cup {Head(chans[s])} ELSE @]
  /\ UNCHANGED <<policy, sessCount, pc, dispatchVars, ticketVars, sshConn,
                 log, configVars, opened, listeners, task, eg, reqCtx>>

\* lines 155-158: BindSSH returns err (nil, a clean close or a fault)
BindSSHReturn(s, err) ==
  /\ pc[s] = "wait"
  /\ task[s].A.state = "running"
  /\ task' = [task EXCEPT ![s].A = Returned(err, task[s].B)]
  /\ eg' = [eg EXCEPT ![s] = Latch(@, err)]
  /\ UNCHANGED <<policy, sessCount, pc, dispatchVars, ticketVars, sshConn,
                 log, configVars, clientVars, dialed, listeners, reqCtx>>

\* a second sub-task that calls BindRemotes whatever the subset holds
InboundAssumed(serverInbound) == FALSE

\* line 162
NoneInbound(serverInbound) == Len(serverInbound) = 0

\* lines 161-164: no reverse remote, the second sub-task returns nil
ReverseNone(s) ==
  /\ pc[s] = "wait"
  /\ task[s].B.state = "running"
  /\ NoneInbound(Reversed(c[s].Remotes))
  /\ task' = [task EXCEPT ![s].B = Returned(Nil, task[s].A)]
  /\ eg' = [eg EXCEPT ![s] = Latch(@, Nil)]
  /\ UNCHANGED <<policy, sessCount, pc, dispatchVars, ticketVars, sshConn,
                 log, configVars, clientVars, dialed, listeners, reqCtx>>

\* BindRemotes binds the listener of the next reverse remote, in order
BindListener(s) ==
  /\ pc[s] = "wait"
  /\ task[s].B.state = "running"
  /\ ~eg[s].cancelled
  /\ LET serverInbound == Reversed(c[s].Remotes)
     IN /\ Len(listeners[s]) < Len(serverInbound)
        /\ listeners' = [listeners EXCEPT ![s] =
                           Append(@, serverInbound[Len(@) + 1])]
  /\ UNCHANGED <<policy, sessCount, pc, dispatchVars, ticketVars, sshConn,
                 log, configVars, clientVars, dialed, task, eg, reqCtx>>

\* line 166: BindRemotes returns: with an error at any time (a listener
\* that cannot be bound, a failed accept), with nil once ctx is cancelled
BindRemotesReturn(s, err) ==
  /\ pc[s] = "wait"
  /\ task[s].B.state = "running"
  /\ ~NoneInbound(Reversed(c[s].Remotes))
  /\ err = Nil => eg[s].cancelled
  /\ task' = [task EXCEPT ![s].B = Returned(err, task[s].A)]
  /\ eg' = [eg EXCEPT ![s] = Latch(@, err)]
  /\ UNCHANGED <<policy, sessCount, pc, dispatchVars, ticketVars, sshConn,
                 log, configVars, clientVars, dialed, listeners, reqCtx>>

\* an errgroup whose context is not derived from the request's
WithContextDetached(parent, g) == g

\* line 154: errgroup.WithContext(req.Context()): ctx is done as soon as
\* its parent is
WithContext(parent, g) ==
  [g EXCEPT !.cancelled = @ \/ parent = "done"]

\* req.Context() is cancelled from outside while ctx is live: ctx, derived
\* from it, is cancelled too
CancelRequest(s) ==
  /\ pc[s] = "wait"
  /\ reqCtx[s] = "live"
  /\ ~eg[s].cancelled
  /\ reqCtx' = [reqCtx EXCEPT ![s] = "done"]
  /\ eg' = [eg EXCEPT ![s] = WithContext(reqCtx'[s], @)]
  /\ UNCHANGED <<policy, sessCount, pc, dispatchVars, ticketVars, sshConn,
                 log, configVars, clientVars, dialed, listeners, task>>

\* a classification that reports every non-nil error
CloseLineAnyError(err) ==
  IF err # Nil
  THEN Line("debug", "closed connection (%s)", <<err>>)
  ELSE Line("debug", "closed connection", <<>>)

\* lines 169-173
CloseLine(err) ==
  IF err # Nil /\ ~HasSuffix(err, EOFSuffix)
  THEN Line("debug", "closed connection (%s)", <<err>>)
  ELSE Line("debug", "closed connection", <<>>)

\* a supervisor that waits for BindSSH alone
WaitForBindSSH(s) ==
  /\ pc[s] = "wait"
  /\ task[s].A.state = "returned"
  /\ eg' = [eg EXCEPT ![s].cancelled = TRUE]
  /\ log' = [log EXCEPT ![s] = Append(@, CloseLine(eg[s].err))]
  /\ pc' = [pc EXCEPT ![s] = "returned"]
  /\ UNCHANGED <<policy, sessCount, dispatchVars, ticketVars, sshConn,
                 configVars, clientVars, dialed, listeners, task, reqCtx>>

\* lines 168-174: eg.Wait() returns once both sub-tasks have returned
Wait(s) ==
  /\ pc[s] = "wait"
  /\ task[s].A.state = "returned"
  /\ task[s].B.state = "returned"
  /\ eg' = [eg EXCEPT ![s].cancelled = TRUE]
  /\ log' = [log EXCEPT ![s] = Append(@, CloseLine(eg[s].err))]
  /\ pc' = [pc EXCEPT ![s] = "returned"]
  /\ UNCHANGED <<policy, sessCount, dispatchVars, ticketVars, sshConn,
                 configVars, clientVars, dialed, listeners, task, reqCtx>>

\* ------------------------------------------------------- specifications

\* The steps of request s from dispatch to the select of line 91.
Handshaking(s, requests) ==
  \/ \E rq \in requests, upgraded \in BOOLEAN : HandleClientHandler(s, rq, upgraded)
  \/ \E name \in UserNames, pass \in Passwords : AuthUser(s, name, pass)
  \/ HandshakeDone(s)
  \/ HandshakeFail(s)
  \/ GetTicket(s)
  \/ DelTicket(s)

\* The steps of session s from the select of line 91 to its return.
Supervising(s, requests) ==
  \/ \E target \in Addrs : ClientOpenChannel(s, target)
  \/ \E rq \in requests, free \in SUBSET Addrs : ReceiveRequest(s, rq, free)
  \/ ConfigTimeout(s)
  \/ ReqsClosed(s)
  \/ BindSSHServe(s)
  \/ \E err \in TaskErrors \cup {Nil} : BindSSHReturn(s, err)
  \/ ReverseNone(s)
  \/ BindListener(s)
  \/ \E err \in RemotesErrors \cup {Nil} : BindRemotesReturn(s, err)
  \/ CancelRequest(s)
  \/ Wait(s)

\* the first requests of a session whose tunnel is bound when the policy
\* allows its remotes: every config of the server's own version
RunningRequests ==
  {rq \in OOBRequests :
     /\ rq.Type = "config"
     /\ rq.Payload.wellFormed
     /\ rq.Payload.Version = BuildVersion}

\* the request that is followed through its whole life
First == CHOOSE s \in Sessions : \A other \in Sessions : s <= other

\* handleWebsocket reads s.config.Reverse and s.users only: the policies
\* under which a session is followed to its end differ in these two.
InitSupervised ==
  /\ Init
  /\ policy.Psk = ""
  /\ ~policy.Obfs
  /\ ~policy.reverseProxy

\* One session from dispatch to the return of handleWebsocket.
Next ==
  Handshaking(First, SessionRequests) \/ Supervising(First, SupervisedRequests)

Spec == InitSupervised /\ [][Next]_vars

\* One request with any headers under any policy, from dispatch to the
\* point where its supervisor waits for the config request.
NextDispatch == Handshaking(First, Requests)

SpecDispatch == Init /\ [][NextDispatch]_vars

\* Concurrent requests under any policy, each up to the point where its
\* supervisor has consumed its ticket and waits for the config request.
NextSessions == \E s \in Sessions : Handshaking(s, SessionRequests)

SpecSessions == Init /\ [][NextSessions]_vars

\* One session from dispatch to the end of its config exchange, the
\* first request being of any type and any version.
NextExchange ==
  \/ Handshaking(First, SessionRequests)
  \/ \E rq \in OOBRequests, free \in SUBSET Addrs :
       ReceiveRequest(First, rq, free)

SpecExchange == InitSupervised /\ [][NextExchange]_vars

\* One session from dispatch to its return, its first request a config of
\* the server's version, under the scheduling the sub-tasks guarantee.
NextRunning ==
  Handshaking(First, SessionRequests) \/ Supervising(First, RunningRequests)

\* A sub-task whose context is cancelled returns (BindSSH closes the
\* connection on ctx.Done(), BindRemotes closes its listeners); a second
\* sub-task with nothing to bind returns at once; eg.Wait() returns when
\* both sub-tasks have.
Unwinding(s) ==
  /\ WF_vars(\E err \in TaskErrors \cup {Nil} :
               eg[s].cancelled /\ BindSSHReturn(s, err))
  /\ WF_vars(BindRemotesReturn(s, Nil))
  /\ WF_vars(ReverseNone(s))
  /\ WF_vars(Wait(s))

SpecRunning == InitSupervised /\ [][NextRunning]_vars /\ Unwinding(First)

\* One session from dispatch to its return, served by an auth layer that
\* may forget the ticket of a user it accepted.
NextFaultyAuth ==
  \/ Handshaking(First, SessionRequests)
  \/ \E name \in UserNames, pass \in Passwords :
       AuthUserForgetful(First, name, pass)
  \/ Supervising(First, RunningRequests)

SpecFaultyAuth == InitSupervised /\ [][NextFaultyAuth]_vars

\* ------------------------------------------------------------ properties

LastLine(s) == log[s][Len(log[s])]

PositiveReply == Reply(TRUE, <<>>)

NoTasks == [A |-> NoTask, B |-> NoTask]

\* two letters that differ at most in case
SameLetter(x, y) ==
  \/ x = y
  \/ <<x, y>> \in {<<"W", "w">>, <<"E", "e">>, <<"B", "b">>, <<"S", "s">>,
                   <<"O", "o">>, <<"C", "c">>, <<"K", "k">>, <<"T", "t">>}
  \/ <<y, x>> \in {<<"W", "w">>, <<"E", "e">>, <<"B", "b">>, <<"S", "s">>,
                   <<"O", "o">>, <<"C", "c">>, <<"K", "k">>, <<"T", "t">>}

EqualFold(a, b) ==
  /\ Len(a) = Len(b)
  /\ \A i \in 1..Len(a) : SameLetter(a[i], b[i])

StartsWith(str, prefix) ==
  /\ Len(prefix) <= Len(str)
  /\ \A i \in 1..Len(prefix) : str[i] = prefix[i]

\* handleWebsocket was called for request s
UpgradeAttempted(s) == id[s] # 0

\* C1: a request is handed to handleWebsocket if and only if its Upgrade
\* header is "websocket" in any letter case, its sub-protocol starts with
\* "penguin-", the configured PSK is empty or equals the X-Penguin-Psk
\* header, and the sub-protocol is the expected protocol version.
C1_UpgradeIff ==
  \A s \in Sessions :
    request[s] # NoRequest =>
      ( UpgradeAttempted(s) <=>
          /\ EqualFold(request[s].Upgrade, Websocket)
          /\ StartsWith(request[s].Protocol, PenguinPrefix)
          /\ (policy.Psk = "" \/ request[s].Psk = policy.Psk)
          /\ request[s].Protocol = ProtocolVersion )

\* an upgrade under a configured PSK, the Upgrade header not in lower case
C1_Witness ==
  \E s \in Sessions :
    /\ UpgradeAttempted(s)
    /\ request[s] # NoRequest
    /\ request[s].Upgrade # Websocket
    /\ policy.Psk # ""
    /\ request[s].Psk = policy.Psk

\* the response the precedence proxy, health/version, 404 gives
ExpectedResponse(rq) ==
  IF policy.reverseProxy
  THEN [status |-> 0, body |-> <<>>, proxied |-> TRUE]
  ELSE IF ~policy.Obfs /\ rq.Path = "/health"
       THEN [status |-> 200, body |-> <<"OK\n">>, proxied |-> FALSE]
       ELSE IF ~policy.Obfs /\ rq.Path = "/version"
            THEN [status |-> 200, body |-> <<BuildVersion>>, proxied |-> FALSE]
            ELSE [status |-> 404, body |-> <<Resp404>>, proxied |-> FALSE]

\* C2: every request not handed to handleWebsocket, tunnel candidates
\* rejected for PSK or protocol version included, gets exactly one
\* response: the delegate's when a reverse proxy is configured; else,
\* with obfuscation off, 200 "OK\n" for /health and 200 with the build
\* version for /version; else 404 with the configured body.
C2_FallThrough ==
  \A s \in Sessions :
    (request[s] # NoRequest /\ ~UpgradeAttempted(s)) =>
      /\ pc[s] = "responded"
      /\ w[s] = ExpectedResponse(request[s])

\* a tunnel candidate with a wrong PSK asks for /health under obfuscation
\* and no proxy: it gets the 404 body
C2_Witness ==
  \E s \in Sessions :
    /\ pc[s] = "responded"
    /\ policy.Obfs
    /\ ~policy.reverseProxy
    /\ request[s].Path = "/health"
    /\ request[s].Protocol = ProtocolVersion
    /\ request[s].Upgrade = Websocket
    /\ request[s].Psk = "wrong"
    /\ w[s].status = 404
    /\ w[s].body = <<Resp404>>

\* C3: a session whose tunnel is bound received a first request of type
\* "config"; a first request of another type gets one negative reply with
\* the error text, and the session sends no positive reply, creates no
\* tunnel and starts no sub-task.
C3_ConfigFirst ==
  \A s \in Sessions :
    /\ (tunnel[s] # NoTunnel \/ task[s] # NoTasks \/ pc[s] = "wait")
         => r[s].Type = "config"
    /\ (r[s] # NoOOB /\ r[s].Type # "config") =>
         /\ replies[s] = <<Reply(FALSE, <<"expecting config request">>)>>
         /\ tunnel[s] = NoTunnel
         /\ task[s] = NoTasks
         /\ dialed[s] = {}
         /\ listeners[s] = <<>>
         /\ pc[s] = "returned"

\* a first request of type "ping" that carries a well-formed config
C3_Witness ==
  \E s \in Sessions :
    /\ r[s].Type = "ping"
    /\ r[s].Payload.wellFormed
    /\ Len(r[s].Payload.Remotes) > 0
    /\ Len(replies[s]) = 1
    /\ ~replies[s][1].ok

TimedOut(s) ==
  \E i \in 1..Len(log[s]) :
    log[s][i].format = "timeout waiting for configuration"

\* C4: when the config timeout fires before a request is received, the
\* supervisor closes the connection and returns; it sends no reply,
\* validates no remote and starts no sub-task.
C4_Timeout ==
  \A s \in Sessions :
    TimedOut(s) =>
      /\ sshConn[s] = "closed"
      /\ pc[s] = "returned"
      /\ r[s] = NoOOB
      /\ replies[s] = <<>>
      /\ c[s] = NoConfig
      /\ probed[s] = <<>>
      /\ tunnel[s] = NoTunnel
      /\ task[s] = NoTasks
      /\ dialed[s] = {}
      /\ listeners[s] = <<>>

\* the timeout fired while a channel-open request was waiting
C4_Witness ==
  \E s \in Sessions : TimedOut(s) /\ chans[s] # <<>> /\ sshConn[s] = "closed"

\* the addresses the server bound or dialed for session s
Touched(s) ==
  dialed[s] \cup {listeners[s][i].Addr : i \in 1..Len(listeners[s])}

\* C5: in a session with a User, no address the user has no access to is
\* bound as a listener or dialed, for the remotes of the config and for
\* the targets of the channels the client opens afterwards.
C5_ACLSoundness ==
  \A s \in Sessions :
    user[s] # NoUser => \A addr \in Touched(s) : HasAccess(user[s], addr)

ReverseRequested(s) ==
  /\ r[s].Type = "config"
  /\ r[s].Payload.wellFormed
  /\ \E i \in 1..Len(r[s].Payload.Remotes) : r[s].Payload.Remotes[i].Reverse

\* C6: with the policy's reverse flag off, a config that holds a reverse
\* remote gets a negative reply, and the session makes no listener probe
\* and binds no listener.
C6_ReverseGating ==
  \A s \in Sessions :
    (~policy.Reverse /\ ReverseRequested(s)) =>
      /\ Len(replies[s]) = 1
      /\ ~replies[s][1].ok
      /\ probed[s] = <<>>
      /\ listeners[s] = <<>>
      /\ tunnel[s] = NoTunnel
      /\ pc[s] = "returned"

\* reverse is off and the reverse remote comes second, after a forward
\* remote that passed its checks
C6_Witness ==
  \E s \in Sessions :
    /\ ~policy.Reverse
    /\ ReverseRequested(s)
    /\ Len(r[s].Payload.Remotes) = 2
    /\ ~r[s].Payload.Remotes[1].Reverse
    /\ replies[s] =
         <<Reply(FALSE, <<"reverse port forwarding not enabled on server">>)>>

\* C7: a step that serves a channel-open request or binds a reverse
\* listener is taken only when the positive config reply has been sent;
\* channel-open requests received earlier wait in chans until then.
C7_GreenLight ==
  [][\A s \in Sessions :
       (\/ dialed'[s] # dialed[s]
        \/ listeners'[s] # listeners[s]
        \/ Len(chans'[s]) < Len(chans[s]))
         => replies[s] = <<PositiveReply>>]_vars

\* after the positive reply a channel was dialed and a listener bound
C7_Witness ==
  \E s \in Sessions :
    /\ replies[s] = <<PositiveReply>>
    /\ dialed[s] # {}
    /\ listeners[s] # <<>>

\* both sub-tasks returned and handleWebsocket logged and returned
Finished(s) ==
  /\ pc[s] = "returned"
  /\ task[s].A.state = "returned"
  /\ task[s].B.state = "returned"

ReturnedErrors(s) == {task[s].A.err, task[s].B.err} \ {Nil}

EndsInEOF(err) ==
  /\ Len(err) >= 3
  /\ err[Len(err) - 2] = "E"
  /\ err[Len(err) - 1] = "O"
  /\ err[Len(err)] = "F"

\* the non-nil error that was returned first, Nil when there is none
FirstError(s) ==
  LET a == task[s].A
      b == task[s].B
  IN IF a.err # Nil /\ (b.err = Nil \/ a.order < b.order) THEN a.err
     ELSE b.err

\* C8 as claimed: the line is "closed connection" when every error the
\* sub-tasks returned ends in "EOF", and otherwise carries the text of a
\* returned error that does not end in "EOF", in either order of return.
C8_AnyOrder ==
  \A s \in Sessions :
    Finished(s) =>
      IF \A err \in ReturnedErrors(s) : EndsInEOF(err)
      THEN LastLine(s) = Line("debug", "closed connection", <<>>)
      ELSE \E err \in ReturnedErrors(s) :
             /\ ~EndsInEOF(err)
             /\ LastLine(s) = Line("debug", "closed connection (%s)", <<err>>)

\* C8: the line is decided by the first non-nil error a sub-task
\* returned: "closed connection" when there is none or it ends in "EOF",
\* "closed connection (<err>)" with that error otherwise.
C8_FirstError ==
  \A s \in Sessions :
    Finished(s) =>
      LET err == FirstError(s)
      IN IF err = Nil \/ EndsInEOF(err)
         THEN LastLine(s) = Line("debug", "closed connection", <<>>)
         ELSE LastLine(s) = Line("debug", "closed connection (%s)", <<err>>)

\* BindSSH returned "EOF" first, BindRemotes another error second, and the
\* line carries no error
C8_Witness ==
  \E s \in Sessions :
    /\ Finished(s)
    /\ task[s].A.err = ErrEOF
    /\ task[s].A.order = 1
    /\ task[s].B.err = ErrInUse
    /\ LastLine(s) = Line("debug", "closed connection", <<>>)

\* C9: when handleWebsocket has returned after a completed handshake, the
\* supervisor has closed the cryptographic connection.
C9_Teardown ==
  \A s \in Sessions :
    (pc[s] = "returned" /\ sshConn[s] # "none") => sshConn[s] = "closed"

\* C10: with users configured, a supervisor that waits for the config
\* request has read the store once, under its own session identifier,
\* holds the User its own handshake proved, and has removed the entry;
\* no supervisor ever holds another User than its handshake's.
C10_TicketHandoff ==
  \A s \in Sessions :
    /\ user[s] # NoUser => user[s] = proven[s]
    /\ pc[s] = "delTicket" =>
         storeOps[s] = <<[op |-> "Get", key |-> SessionID(s)]>>
    /\ (policy.users /\ pc[s] = "await") =>
         /\ user[s] # NoUser
         /\ user[s] = proven[s]
         /\ storeOps[s] = <<[op |-> "Get", key |-> SessionID(s)],
                            [op |-> "Del", key |-> SessionID(s)]>>
         /\ sessions[SessionID(s)] = NoUser

\* two supervisors wait for their config, each with its own User, while
\* the store is empty
C10_Witness ==
  \E s, other \in Sessions :
    /\ s # other
    /\ pc[s] = "await"
    /\ pc[other] = "await"
    /\ user[s] # NoUser
    /\ user[other] # NoUser
    /\ user[s] # user[other]
    /\ \A sid \in Sessions : sessions[sid] = NoUser

\* handleWebsocket has ended for request s: CLOSED
Closed(s) == pc[s] \in {"returned", "panic"}

\* C11: the ticket store holds no entry for a session that has reached
\* CLOSED, sessions whose handshake failed after the auth callback stored
\* a ticket included.
C11_NoTicketLeft ==
  \A s \in Sessions : Closed(s) => sessions[SessionID(s)] = NoUser

HasLine(s, format) ==
  \E i \in 1..Len(log[s]) : log[s][i].format = format

\* the supervisor of s looked for its ticket and found none
TicketMissing(s) ==
  /\ policy.users
  /\ storeOps[s] # <<>>
  /\ user[s] = NoUser

\* C12: with users configured, a supervisor that finds no ticket under its
\* session identifier after the handshake panics: it does not wait for a
\* config request, sends no reply and binds no tunnel; no supervisor gets
\* past the ticket check without a User.
C12_MissingTicket ==
  \A s \in Sessions :
    /\ TicketMissing(s) =>
         /\ pc[s] = "panic"
         /\ storeOps[s] = <<[op |-> "Get", key |-> SessionID(s)]>>
         /\ ~HasLine(s, "verifying configuration")
         /\ r[s] = NoOOB
         /\ replies[s] = <<>>
         /\ sshConn[s] = "open"
         /\ tunnel[s] = NoTunnel
         /\ task[s] = NoTasks
         /\ dialed[s] = {}
         /\ listeners[s] = <<>>
    /\ (policy.users /\ (pc[s] \in {"delTicket", "await", "wait"} \/ r[s] # NoOOB))
         => user[s] # NoUser

\* the handshake accepted a user, the store holds no ticket for the
\* session, and the supervisor has panicked
C12_Witness ==
  \E s \in Sessions :
    /\ TicketMissing(s)
    /\ proven[s] # NoUser
    /\ sshConn[s] = "open"
    /\ pc[s] = "panic"

ClosedLines == {"closed connection", "closed connection (%s)"}

\* C13: in a session whose sub-tasks were started, a sub-task that returns
\* a non-nil error cancels the shared context, the first such error being
\* the one the group keeps; the supervisor logs the closed-connection line
\* and returns only when both sub-tasks have returned, and a sub-task is
\* running only while the supervisor waits.
C13_Cancellation ==
  \A s \in Sessions :
    /\ ReturnedErrors(s) # {} =>
         /\ eg[s].cancelled
         /\ eg[s].err = FirstError(s)
    /\ ReturnedErrors(s) = {} => eg[s].err = Nil
    /\ "running" \in {task[s].A.state, task[s].B.state} =>
         /\ pc[s] = "wait"
         /\ ~HasLine(s, "closed connection")
         /\ ~HasLine(s, "closed connection (%s)")
    /\ (pc[s] = "returned" /\ task[s] # NoTasks) =>
         /\ task[s].A.state = "returned"
         /\ task[s].B.state = "returned"
         /\ LastLine(s).format \in ClosedLines

\* BindRemotes, with a listener bound, returned an error first; BindSSH
\* returned after it, and the supervisor has returned
C13_Witness ==
  \E s \in Sessions :
    /\ Finished(s)
    /\ listeners[s] # <<>>
    /\ task[s].B.err = ErrInUse
    /\ task[s].B.order = 1
    /\ task[s].A.order = 2
    /\ eg[s].err = ErrInUse

\* C14: a supervisor that received a first request has made exactly one
\* reply on it, negative or positive; in a session whose sub-tasks were
\* started it is the positive one, whatever the sub-tasks return later;
\* with no request received there is no reply.
C14_ReplyOnce ==
  \A s \in Sessions :
    /\ r[s] # NoOOB => Len(replies[s]) = 1
    /\ r[s] = NoOOB => replies[s] = <<>>
    /\ task[s] # NoTasks => replies[s] = <<PositiveReply>>
    /\ (r[s] # NoOOB /\ task[s] = NoTasks) =>
         /\ ~replies[s][1].ok
         /\ replies[s][1].payload # <<>>

\* the positive reply was sent, a sub-task failed later, and the
\* supervisor has returned: the positive reply is still the only one
C14_Witness ==
  \E s \in Sessions :
    /\ Finished(s)
    /\ eg[s].err = ErrReset
    /\ replies[s] = <<PositiveReply>>

VersionFormat == "client version (%s) differs from server version (%s)"

NotVersionLine(line) == line.format # VersionFormat

IsVersionLine(line) == line.format = VersionFormat

\* the log lines of session s that follow "verifying configuration"
ExchangeLog(s) ==
  LET at == CHOOSE i \in 1..Len(log[s]) :
              log[s][i].format = "verifying configuration"
  IN SubSeq(log[s], at + 1, Len(log[s]))

\* the first request of s carried a config that was decoded
Decoded(s) == r[s].Type = "config" /\ r[s].Payload.wellFormed

\* the string the version line shows for version v
Rendered(v) == IF v = "" THEN "<unknown>" ELSE v

\* C15: the session of a decoded config and the session that differs from
\* it only in the version string of the config (same user, same answers
\* of the listener probes) have the same reply, the same remotes accepted
\* and probed, the same state after the exchange and the same log lines
\* but for the version line; a session logs that line exactly once, at
\* info level, when its config's version is not the build version (an
\* empty version shown as "<unknown>"), and not at all when it is.
C15_VersionAdvisory ==
  \A s \in Sessions :
    Decoded(s) =>
      /\ \A v \in Versions :
           LET other == [r[s] EXCEPT !.Payload.Version = v]
               alt == ConfigOutcome(other, user[s], listenable[s])
           IN /\ alt.replies = replies[s]
              /\ alt.c.Remotes = c[s].Remotes
              /\ alt.probed = probed[s]
              /\ alt.ok = (pc[s] = "wait")
              /\ alt.ok = (tunnel[s] # NoTunnel)
              /\ alt.ok = (task[s] # NoTasks)
              /\ SelectSeq(alt.log, NotVersionLine)
                   = SelectSeq(ExchangeLog(s), NotVersionLine)
              /\ Len(SelectSeq(alt.log, IsVersionLine))
                   = IF v = BuildVersion THEN 0 ELSE 1
      /\ SelectSeq(ExchangeLog(s), IsVersionLine) =
           IF c[s].Version = BuildVersion
           THEN <<>>
           ELSE <<Line("info", VersionFormat,
                       <<Rendered(c[s].Version), BuildVersion>>)>>

\* a config of version "0.0.1" with a reverse remote was accepted: the
\* one version line names "0.0.1" and the build version
C15_Witness ==
  \E s \in Sessions :
    /\ Decoded(s)
    /\ c[s].Version = "0.0.1"
    /\ probed[s] # <<>>
    /\ replies[s] = <<PositiveReply>>
    /\ pc[s] = "wait"
    /\ SelectSeq(log[s], IsVersionLine) =
         <<Line("info", VersionFormat, <<"0.0.1", BuildVersion>>)>>

\* the three checks of the validator, as the failure each one finds
AccessDenied(remote, u) == u # NoUser /\ UserAddr(remote) \notin u.Addrs

ReverseOff(remote) == remote.Reverse /\ ~policy.Reverse

CannotListen(remote, free) == remote.Reverse /\ remote.Addr \notin free

Fails(remote, u, free) ==
  AccessDenied(remote, u) \/ ReverseOff(remote) \/ CannotListen(remote, free)

\* the text of the first failing check of a failing remote
FailureText(remote, u, free) ==
  IF AccessDenied(remote, u)
  THEN <<"access to '%s' denied", UserAddr(remote)>>
  ELSE IF ReverseOff(remote)
       THEN <<"reverse port forwarding not enabled on server">>
       ELSE <<"server cannot listen on %s", remote.Addr>>

Min(S) == CHOOSE x \in S : \A y \in S : x <= y

\* C16: for a decoded config, the reply is positive with an empty payload
\* if and only if every remote passes the three checks; otherwise it is
\* negative with the text of the first failing check (access, reverse not
\* enabled, cannot listen) of the first failing remote in declared order,
\* and no remote after that one is probed for a listener.
C16_ValidatorOutcome ==
  \A s \in Sessions :
    Decoded(s) =>
      LET remotes == c[s].Remotes
          failing == {i \in 1..Len(remotes) :
                       Fails(remotes[i], user[s], listenable[s])}
      IN /\ Len(replies[s]) = 1
         /\ replies[s][1].ok <=> failing = {}
         /\ IF failing = {}
            THEN /\ replies[s] = <<Reply(TRUE, <<>>)>>
                 /\ probed[s] = Reversed(remotes)
            ELSE LET k == Min(failing)
                 IN /\ replies[s] =
                         <<Reply(FALSE, FailureText(remotes[k], user[s],
                                                    listenable[s]))>>
                    /\ Len(probed[s]) <= Len(Reversed(SubSeq(remotes, 1, k)))
                    /\ \A i \in 1..Len(probed[s]) :
                         \E j \in 1..k : probed[s][i] = remotes[j]

\* two remotes that both fail: the listener of the first cannot be bound
\* and the user has no access to the second; the reply is about the first
C16_Witness ==
  \E s \in Sessions :
    /\ Decoded(s)
    /\ Len(c[s].Remotes) = 2
    /\ CannotListen(c[s].Remotes[1], listenable[s])
    /\ AccessDenied(c[s].Remotes[2], user[s])
    /\ c[s].Remotes[2].Addr # c[s].Remotes[1].Addr
    /\ probed[s] = <<c[s].Remotes[1]>>
    /\ replies[s] =
         <<Reply(FALSE, <<"server cannot listen on %s", c[s].Remotes[1].Addr>>)>>

\* C17: with no users configured the supervisor makes no operation on the
\* ticket store and holds no User, no reply denies access, and a decoded
\* config is rejected only for a reverse remote: reverse not enabled on
\* the server, or a listener that cannot be bound.
C17_Permissive ==
  \A s \in Sessions :
    ~policy.users =>
      /\ storeOps[s] = <<>>
      /\ user[s] = NoUser
      /\ sessions[SessionID(s)] = NoUser
      /\ \A i \in 1..Len(replies[s]) :
           ~replies[s][i].ok =>
             Head(replies[s][i].payload) # "access to '%s' denied"
      /\ (Decoded(s) /\ replies[s] # <<PositiveReply>>) =>
           /\ \E i \in 1..Len(c[s].Remotes) : c[s].Remotes[i].Reverse
           /\ \/ /\ ~policy.Reverse
                 /\ replies[s] =
                      <<Reply(FALSE, <<"reverse port forwarding not enabled on server">>)>>
              \/ /\ policy.Reverse
                 /\ \E i \in 1..Len(c[s].Remotes) :
                      /\ c[s].Remotes[i].Reverse
                      /\ replies[s] =
                           <<Reply(FALSE, <<"server cannot listen on %s",
                                            c[s].Remotes[i].Addr>>)>>

\* with no users configured a config of a forward remote and a reverse
\* remote on two addresses is accepted
C17_Witness ==
  \E s \in Sessions :
    /\ ~policy.users
    /\ Decoded(s)
    /\ Len(c[s].Remotes) = 2
    /\ ~c[s].Remotes[1].Reverse
    /\ c[s].Remotes[2].Reverse
    /\ c[s].Remotes[1].Addr # c[s].Remotes[2].Addr
    /\ replies[s] = <<PositiveReply>>
    /\ pc[s] = "wait"

\* the sub-tasks of s were started for a config with no reverse remote
NoReverse(s) ==
  /\ task[s] # NoTasks
  /\ \A i \in 1..Len(c[s].Remotes) : ~c[s].Remotes[i].Reverse

\* C18: in a session whose accepted config has no reverse remote, the
\* second sub-task binds no listener and returns nil, and nothing else;
\* its return neither cancels the shared context nor ends the session:
\* while BindSSH runs the supervisor waits, the context is cancelled only
\* when the request's context is, and a waiting channel can be served.
C18_NoReverse ==
  \A s \in Sessions :
    NoReverse(s) =>
      /\ listeners[s] = <<>>
      /\ task[s].B.err = Nil
      /\ (task[s].B.state = "returned" /\ task[s].A.state = "running") =>
           /\ pc[s] = "wait"
           /\ eg[s].err = Nil
           /\ eg[s].cancelled <=> reqCtx[s] = "done"
           /\ chans[s] # <<>> => ENABLED BindSSHServe(s)
           /\ ENABLED BindSSHReturn(s, ErrEOF)
           /\ ~ENABLED Wait(s)

\* the config holds a forward remote only; the second sub-task has
\* returned first, the context is live, BindSSH runs and has dialed
C18_Witness ==
  \E s \in Sessions :
    /\ NoReverse(s)
    /\ Len(c[s].Remotes) > 0
    /\ task[s].B.state = "returned"
    /\ task[s].A.state = "running"
    /\ ~eg[s].cancelled
    /\ pc[s] = "wait"
    /\ dialed[s] # {}

\* C19: once the request's context is cancelled in a session whose
\* sub-tasks run, the shared context is cancelled with it, and the session
\* comes to the state where both sub-tasks have returned and the
\* supervisor has logged the closed-connection line and returned.
C19_ExternalCancel ==
  /\ [](\A s \in Sessions : reqCtx[s] = "done" => eg[s].cancelled)
  /\ \A s \in Sessions :
       (pc[s] = "wait" /\ reqCtx[s] = "done")
         ~> (Finished(s) /\ LastLine(s).format \in ClosedLines)

\* the request was cancelled with a listener bound; both sub-tasks
\* returned nil and the supervisor logged "closed connection"
C19_Witness ==
  \E s \in Sessions :
    /\ reqCtx[s] = "done"
    /\ listeners[s] # <<>>
    /\ Finished(s)
    /\ eg[s].err = Nil
    /\ LastLine(s) = Line("debug", "closed connection", <<>>)

\* BindSSH has returned in a session with a reverse listener bound
BindSSHEnded(s) ==
  /\ listeners[s] # <<>>
  /\ task[s].A.state = "returned"

\* C20 as claimed: in a session with a reverse listener bound, once
\* BindSSH has returned, with an error or with none, the session comes to
\* the state where BindRemotes has returned and the supervisor has too.
C20_AnyReturn ==
  \A s \in Sessions : BindSSHEnded(s) ~> Finished(s)

\* C20: in a session with a reverse listener bound, once BindSSH has
\* returned a non-nil error, the shared context is cancelled and the
\* session comes to the state where BindRemotes has returned and the
\* supervisor has logged the closed-connection line and returned.
C20_ErrorReturn ==
  /\ [](\A s \in Sessions :
          (BindSSHEnded(s) /\ task[s].A.err # Nil) => eg[s].cancelled)
  /\ \A s \in Sessions :
       (BindSSHEnded(s) /\ task[s].A.err # Nil)
         ~> (Finished(s) /\ LastLine(s).format \in ClosedLines)

\* BindSSH returned "EOF" first with a listener bound; BindRemotes
\* returned nil after it and the supervisor has returned
C20_Witness ==
  \E s \in Sessions :
    /\ Finished(s)
    /\ listeners[s] # <<>>
    /\ task[s].A.err = ErrEOF
    /\ task[s].A.order = 1
    /\ task[s].B.err = Nil
    /\ task[s].B.order = 2

====
